---------------------------- MODULE Spec2Model ----------------------------
(***************************************************************************)
(* Model of the Noon post processor (src/working/post_processor.py):       *)
(* split_breadcrumbs, combine_images, process_csv and run_post_processor.  *)
(*                                                                         *)
(* Representation.                                                         *)
(*   - A Python str is the sequence of its Unicode code points (numbers).  *)
(*     Column names and message tags, which the program only compares,     *)
(*     are strings.                                                        *)
(*   - A cell value is an optional: NULL (NaN / None) is <<>>, a value v   *)
(*     that is present is <<v>>.                                           *)
(*   - A row (pandas Series) is a function from column names to cells.     *)
(*   - A table (DataFrame) is [cols |-> sequence of names, rows |-> ...].  *)
(***************************************************************************)
EXTENDS Integers, Sequences, FiniteSets, TLC

VARIABLES
    bc_in, bc_out, bc_done,                  \* split_breadcrumbs applied to one input
    img_row, img_cols, img_out, img_count, img_done,  \* combine_images applied to one row
    input_dir, disk,                         \* the input path and the files under it
    runs, csv_files, image_cols, all_dfs,    \* run_post_processor: its locals ...
    concat_df, combined, out_msgs, ret, written,      \* ... and its outcome
    prev_ret, prev_combined                  \* the outcome of the run before

vars == <<bc_in, bc_out, bc_done, img_row, img_cols, img_out, img_count, img_done,
          input_dir, disk, runs, csv_files, image_cols, all_dfs, concat_df,
          combined, out_msgs, ret, written, prev_ret, prev_combined>>

crumbVars == <<bc_in, bc_out, bc_done>>
imageVars == <<img_row, img_cols, img_out, img_count, img_done>>
pipeVars  == <<input_dir, disk, runs, csv_files, image_cols, all_dfs, concat_df,
               combined, out_msgs, ret, written, prev_ret, prev_combined>>

---------------------------------------------------------------------------
(* Bounds of the model *)

MaxCrumbLen == 7    \* longest breadcrumb string, in characters
MaxUrlLen   == 2    \* longest image cell, in characters
MaxFiles    == 2    \* most selectable files in the input directory
MaxTotalRows == 2   \* most rows in the input directory, all files together

---------------------------------------------------------------------------
(* Optionals and Python strings *)

NULL == <<>>
Some(v) == <<v>>
notna(x) == x # NULL
isna(x) == x = NULL
Val(x) == x[1]

\* All sequences over S of length 0..n
RECURSIVE SeqsUpTo(_, _)
SeqsUpTo(S, n) ==
    IF n = 0 THEN {<<>>}
    ELSE LET shorter == SeqsUpTo(S, n - 1)
         IN  shorter \cup {Append(s, c) : s \in {t \in shorter : Len(t) = n - 1}, c \in S}

InSeq(x, s) == \E i \in 1..Len(s) : s[i] = x

\* The characters str.strip() removes: the code points Python holds for white space
\* (\t \n \x0b \f \r, \x1c-\x1f, space, \x85, \xa0 and the Unicode spaces)
IsSpace(c) ==
    \/ c \in 9..13
    \/ c \in 28..32
    \/ c \in {133, 160, 5760}
    \/ c \in 8192..8202
    \/ c \in {8232, 8233, 8239, 8287, 12288}

RECURSIVE lstrip(_)
lstrip(s) ==
    IF s = <<>> THEN s
    ELSE IF IsSpace(Head(s)) THEN lstrip(Tail(s)) ELSE s

RECURSIVE rstrip(_)
rstrip(s) ==
    IF s = <<>> THEN s
    ELSE IF IsSpace(s[Len(s)]) THEN rstrip(SubSeq(s, 1, Len(s) - 1)) ELSE s

\* str.strip()
strip(s) == rstrip(lstrip(s))

\* str.split(d): always at least one part; adjacent delimiters give empty parts
RECURSIVE split(_, _)
split(s, d) ==
    IF \A i \in 1..Len(s) : s[i] # d THEN <<s>>
    ELSE LET i == CHOOSE k \in 1..Len(s) : s[k] = d /\ \A j \in 1..(k - 1) : s[j] # d
         IN  <<SubSeq(s, 1, i - 1)>> \o split(SubSeq(s, i + 1, Len(s)), d)

\* [f(x) for x in s]
strip_each(parts) == [i \in 1..Len(parts) |-> strip(parts[i])]

\* Python slice s[a:b] with 0 <= a <= b
Slice(s, a, b) == SubSeq(s, a + 1, IF b < Len(s) THEN b ELSE Len(s))

---------------------------------------------------------------------------
(* split_breadcrumbs, post_processor.py:65-85 *)

NoCategories ==
    [category_1 |-> NULL, category_2 |-> NULL, category_3 |-> NULL, category_4 |-> NULL]

\* parts[1:5]: skip the first segment, take the next four
GREATER_THAN == 62    \* '>'

crumb_parts(s) == Slice(strip_each(split(s, GREATER_THAN)), 1, 5)

split_breadcrumbs(breadcrumb_str) ==
    IF isna(breadcrumb_str) \/ strip(Val(breadcrumb_str)) = <<>>
    THEN NoCategories
    ELSE LET parts == crumb_parts(Val(breadcrumb_str))
             cat(i) == IF i <= Len(parts) THEN Some(parts[i]) ELSE NULL
         IN  [category_1 |-> cat(1), category_2 |-> cat(2),
              category_3 |-> cat(3), category_4 |-> cat(4)]

---------------------------------------------------------------------------
(* The constants of post_processor.py:32-60 *)

COLUMNS_TO_KEEP ==
    << "sku", "name", "brand", "url_slug", "product_url",
       "price", "sale_price", "discount_percentage",
       "rating_value", "rating_count", "is_buyable", "is_bestseller",
       "deal_tag_text", "flags", "estimated_delivery_date",
       "detail_product_title", "detail_brand", "detail_feature_bullets",
       "detail_breadcrumbs",
       "detail_category_code", "detail_all_specifications_json", "detail_all_images_json",
       "detail_brand_rating", "detail_is_collection_eligible",
       "detail_available_colors", "detail_color_variants_json", "detail_variant_sku",
       "detail_size",
       "detail_fbt_count", "detail_fbt_products_json",
       "detail_price", "detail_currency", "detail_sale_price", "detail_stock",
       "detail_is_buyable", "detail_is_bestseller",
       "detail_store_name", "detail_partner_code", "detail_seller_rating",
       "detail_seller_rating_count", "detail_seller_positive_rating",
       "detail_seller_as_described_rate",
       "detail_estimated_delivery", "detail_estimated_delivery_date",
       "detail_shipping_fee_message", "detail_is_marketplace",
       "detail_is_global", "detail_is_free_delivery",
       "detail_flags_json", "detail_bnpl_available", "detail_cashback_available" >>

IMAGE_COLUMNS ==
    << "image_1", "image_2", "image_3", "image_4", "image_5",
       "image_6", "image_7", "image_8", "image_9", "image_10",
       "detail_image_1", "detail_image_2", "detail_image_3",
       "detail_image_4", "detail_image_5" >>

\* The columns process_csv appends after the projection, in the order it assigns them
DERIVED_COLUMNS ==
    << "all_images", "image_count", "category_1", "category_2", "category_3", "category_4" >>

---------------------------------------------------------------------------
(* json.dumps / json.loads of a list of strings *)

QUOTE == 34        \* '"'
BACKSLASH == 92    \* the backslash

\* The character of the hexadecimal digit d, in lower case as json.dumps writes it
hex_digit(d) == IF d < 10 THEN 48 + d ELSE 87 + d

\* '\uXXXX' for a code point below 65536
json_u_escape(n) ==
    <<BACKSLASH, 117, hex_digit(n \div 4096), hex_digit((n \div 256) % 16),
      hex_digit((n \div 16) % 16), hex_digit(n % 16)>>

\* What json.dumps (ensure_ascii=True) writes for one character
json_escape_char(c) ==
    CASE c = QUOTE -> <<BACKSLASH, QUOTE>>
      [] c = BACKSLASH -> <<BACKSLASH, BACKSLASH>>
      [] c = 10 -> <<BACKSLASH, 110>>    \* \n
      [] c = 13 -> <<BACKSLASH, 114>>    \* \r
      [] c = 9 -> <<BACKSLASH, 116>>     \* \t
      [] c = 12 -> <<BACKSLASH, 102>>    \* \f
      [] c = 8 -> <<BACKSLASH, 98>>      \* \b
      [] c \in 32..126 /\ c \notin {QUOTE, BACKSLASH} -> <<c>>
      [] c < 65536 /\ c \notin (32..126) \cup {8, 9, 10, 12, 13} -> json_u_escape(c)
      [] c >= 65536 ->    \* a surrogate pair
             json_u_escape(55296 + ((c - 65536) \div 1024))
             \o json_u_escape(56320 + ((c - 65536) % 1024))

RECURSIVE json_escape(_)
json_escape(s) ==
    IF s = <<>> THEN <<>>
    ELSE json_escape_char(Head(s)) \o json_escape(Tail(s))

json_string(s) == <<QUOTE>> \o json_escape(s) \o <<QUOTE>>

RECURSIVE json_join(_)
json_join(items) ==
    IF items = <<>> THEN <<>>
    ELSE IF Len(items) = 1 THEN json_string(items[1])
    ELSE json_string(items[1]) \o <<44, 32>> \o json_join(Tail(items))    \* ', ' 

\* json.dumps(images): '["u1", "u2"]'
json_dumps(items) == <<91>> \o json_join(items) \o <<93>>

\* The value of a hexadecimal digit, in either case
hex_value(c) ==
    IF c <= 57 THEN c - 48          \* '0'..'9'
    ELSE IF c <= 70 THEN c - 55     \* 'A'..'F'
    ELSE c - 87                     \* 'a'..'f'

\* The number that the four hexadecimal digits from position i on write
hex4(s, i) ==
    ((hex_value(s[i]) * 16 + hex_value(s[i + 1])) * 16 + hex_value(s[i + 2])) * 16
    + hex_value(s[i + 3])

\* The character json.loads reads from the escape whose backslash is at position i,
\* and the position after the escape; a high surrogate followed by the escape of a
\* low one is read as the one character of the pair
json_unescape(s, i) ==
    LET e == s[i + 1]
    IN  IF e = 117    \* \uXXXX
        THEN LET uni == hex4(s, i + 2)
                 paired == /\ uni \in 55296..56319
                           /\ i + 11 <= Len(s)
                           /\ s[i + 6] = BACKSLASH /\ s[i + 7] = 117
                           /\ hex4(s, i + 8) \in 56320..57343
             IN  IF paired
                 THEN [char |-> 65536 + (uni - 55296) * 1024 + (hex4(s, i + 8) - 56320),
                       next |-> i + 12]
                 ELSE [char |-> uni, next |-> i + 6]
        ELSE [char |-> CASE e = 110 -> 10    \* \n
                         [] e = 114 -> 13    \* \r
                         [] e = 116 -> 9     \* \t
                         [] e = 102 -> 12    \* \f
                         [] e = 98 -> 8      \* \b
                         [] e \in {QUOTE, BACKSLASH, 47} -> e,
              next |-> i + 2]

\* Reads a JSON string whose opening quote is before position i
RECURSIVE json_read_string(_, _, _)
json_read_string(s, i, acc) ==
    IF s[i] = QUOTE THEN [val |-> acc, next |-> i + 1]
    ELSE IF s[i] = BACKSLASH
         THEN LET u == json_unescape(s, i)
              IN  json_read_string(s, u.next, Append(acc, u.char))
    ELSE json_read_string(s, i + 1, Append(acc, s[i]))

RECURSIVE json_read_items(_, _, _)
json_read_items(s, i, acc) ==
    IF i > Len(s) \/ s[i] = 93 THEN acc    \* ']' 
    ELSE IF s[i] = QUOTE
         THEN LET r == json_read_string(s, i + 1, <<>>)
              IN  json_read_items(s, r.next, Append(acc, r.val))
         ELSE json_read_items(s, i + 1, acc)

\* json.loads(x) of an array of strings
json_loads(s) == json_read_items(s, 2, <<>>)

---------------------------------------------------------------------------
(* combine_images, post_processor.py:88-100 *)

\* The loop over image_cols from position i on, with the locals images and seen
RECURSIVE combine_scan(_, _, _, _, _)
combine_scan(row, cols, i, images, seen) ==
    IF i > Len(cols) THEN images
    ELSE LET col == cols[i]
         IN  IF col \in DOMAIN row /\ notna(row[col])
             THEN LET url == strip(Val(row[col]))
                  IN  IF url # <<>> /\ url \notin seen
                      THEN combine_scan(row, cols, i + 1, Append(images, url), seen \cup {url})
                      ELSE combine_scan(row, cols, i + 1, images, seen)
             ELSE combine_scan(row, cols, i + 1, images, seen)

\* combine_images without the seen set: a repeated URL is appended again
RECURSIVE combine_scan_keep_repeats(_, _, _, _)
combine_scan_keep_repeats(row, cols, i, images) ==
    IF i > Len(cols) THEN images
    ELSE LET col == cols[i]
             url == IF col \in DOMAIN row /\ notna(row[col]) THEN strip(Val(row[col])) ELSE <<>>
         IN  combine_scan_keep_repeats(row, cols, i + 1,
                 IF url # <<>> THEN Append(images, url) ELSE images)

combine_images_keep_repeats(row, cols) ==
    LET images == combine_scan_keep_repeats(row, cols, 1, <<>>)
    IN  IF images # <<>> THEN Some(json_dumps(images)) ELSE NULL

combine_images(row, cols) ==
    LET images == combine_scan(row, cols, 1, <<>>, {})
    IN  IF images # <<>> THEN Some(json_dumps(images)) ELSE NULL

\* post_processor.py:119-121: len(json.loads(x)) if pd.notna(x) else 0
image_count_of(x) == IF notna(x) THEN Len(json_loads(Val(x))) ELSE 0

---------------------------------------------------------------------------
(* The two pure functions applied to bounded inputs *)

\* A space, a no-break space, '>' and 'a'
CrumbChars == {32, 160, GREATER_THAN, 97}
CrumbInputs == {NULL} \cup {Some(s) : s \in SeqsUpTo(CrumbChars, MaxCrumbLen)}

\* A newline (a blank, and escaped inside a JSON string), a double quote, 'e' with an
\* acute accent (written as a \u escape) and 'a'
UrlChars == {10, QUOTE, 233, 97}
UrlCells(n) == {NULL} \cup {Some(s) : s \in SeqsUpTo(UrlChars, n)}

\* The candidate image fields a generated record may carry
RowImageCols == {"image_1", "image_2", "detail_image_1"}
\* The records with cells of up to n characters; a field may be absent
ImageRows(n) == UNION {[D -> UrlCells(n)] : D \in SUBSET RowImageCols}

\* Candidate lists handed to combine_images: IMAGE_COLUMNS restricted to a set of names
ImageColsOver(S) == SelectSeq(IMAGE_COLUMNS, LAMBDA c : c \in S)
ImageColLists == {ImageColsOver(S) : S \in SUBSET RowImageCols}

---------------------------------------------------------------------------
(* File names and their order *)

\* a < b on Python strings (and on the paths of one directory)
RECURSIVE str_lt(_, _)
str_lt(a, b) ==
    IF b = <<>> THEN FALSE
    ELSE IF a = <<>> THEN TRUE
    ELSE IF Head(a) = Head(b) THEN str_lt(Tail(a), Tail(b))
    ELSE Head(a) < Head(b)

startswith(s, pre) == Len(s) >= Len(pre) /\ SubSeq(s, 1, Len(pre)) = pre
endswith(s, suf) == Len(s) >= Len(suf) /\ SubSeq(s, Len(s) - Len(suf) + 1, Len(s)) = suf

\* Inserts x into the ascending sequence s
RECURSIVE insert_sorted(_, _)
insert_sorted(x, s) ==
    IF s = <<>> THEN <<x>>
    ELSE IF str_lt(x, Head(s)) THEN <<x>> \o s
    ELSE <<Head(s)>> \o insert_sorted(x, Tail(s))

\* sorted(list)
RECURSIVE sorted(_)
sorted(s) == IF s = <<>> THEN <<>> ELSE insert_sorted(Head(s), sorted(Tail(s)))

DOT_CSV == <<46, 99, 115, 118>>    \* '.csv' 
AUDIT_TABLE_CSV ==
    <<97, 117, 100, 105, 116, 95, 116, 97, 98, 108, 101>> \o DOT_CSV    \* 'audit_table.csv' 
PROGRESS == <<112, 114, 111, 103, 114, 101, 115, 115>>    \* 'progress' 

\* is_selected without the test of the "progress" prefix
is_selected_with_progress(f) == endswith(f, DOT_CSV) /\ f # AUDIT_TABLE_CSV

\* post_processor.py:170: the condition of the comprehension
is_selected(f) ==
    endswith(f, DOT_CSV) /\ f # AUDIT_TABLE_CSV /\ ~startswith(f, PROGRESS)

\* Every order of the names of S
RECURSIVE ListingOrders(_)
ListingOrders(S) ==
    IF S = {} THEN {<<>>}
    ELSE UNION {{<<x>> \o p : p \in ListingOrders(S \ {x})} : x \in S}

\* post_processor.py:169-170: the comprehension over os.listdir(input_dir), which lists
\* the names in any order; filtering a listing gives the selected names in that
\* listing's order, so the orders of the selected names are all that can come out
selected_listings(d) == ListingOrders({f \in DOMAIN d : is_selected(f)})

\* discover without sorted(): the files in the order of the listing
discover_unsorted(selected) == selected

\* post_processor.py:168: sorted([...])
discover(selected) == sorted(selected)

---------------------------------------------------------------------------
(* Tables *)

\* A file on disk: unreadable, or a header (set of column names) and its rows
\* A file under the input directory. header: pd.read_csv(f, nrows=1) at line 182
\* returns, with the columns of the header line; readable: pd.read_csv(f) at line 108
\* returns, with the rows.

\* Neither read returns (a zero-byte file, a file that is no text)
Unreadable == [header |-> FALSE, readable |-> FALSE, columns |-> {}, rows |-> <<>>]

\* The header and the first row parse, the read of the whole file raises (a file cut
\* off inside a quoted field, bytes further down that do not decode)
Damaged(columns) ==
    [header |-> TRUE, readable |-> FALSE, columns |-> columns, rows |-> <<>>]

CsvFile(columns, rows) ==
    [header |-> TRUE, readable |-> TRUE, columns |-> columns, rows |-> rows]

EmptyTable == [cols |-> <<>>, rows |-> <<>>]

ColSet(t) == {t.cols[i] : i \in 1..Len(t.cols)}

\* process_csv after a successful read, post_processor.py:111-136. With a
\* detail_breadcrumbs column and no data row, the frame built at line 125 has no
\* columns and cats['category_1'] at line 126 raises KeyError
csv_table(file, cols_for_images) ==
    LET cols == SelectSeq(COLUMNS_TO_KEEP, LAMBDA c : c \in file.columns)
        kept == {cols[i] : i \in 1..Len(cols)}
        out_cols == cols \o DERIVED_COLUMNS
        has_crumbs == "detail_breadcrumbs" \in file.columns
        out_row(r) ==
            LET all_images == combine_images(r, cols_for_images)
                cats == IF has_crumbs THEN split_breadcrumbs(r["detail_breadcrumbs"])
                        ELSE NoCategories
            IN  [c \in kept \cup {DERIVED_COLUMNS[i] : i \in 1..Len(DERIVED_COLUMNS)} |->
                    IF c \in kept THEN r[c]
                    ELSE IF c = "all_images" THEN all_images
                    ELSE IF c = "image_count" THEN Some(image_count_of(all_images))
                    ELSE IF c = "category_1" THEN cats.category_1
                    ELSE IF c = "category_2" THEN cats.category_2
                    ELSE IF c = "category_3" THEN cats.category_3
                    ELSE cats.category_4]
    IN  IF has_crumbs /\ file.rows = <<>>
        THEN [raised |-> TRUE, df |-> EmptyTable]
        ELSE [raised |-> FALSE,
              df |-> [cols |-> out_cols,
                      rows |-> [i \in 1..Len(file.rows) |-> out_row(file.rows[i])]]]

\* process_csv, post_processor.py:103-136: pd.read_csv raises on a file it cannot read
process_csv(file, cols_for_images) ==
    IF file.readable
    THEN csv_table(file, cols_for_images)
    ELSE [raised |-> TRUE, df |-> EmptyTable]

\* The columns of pd.concat(dfs): the union, each at its first appearance (sort=False)
RECURSIVE concat_columns(_, _)
concat_columns(dfs, acc) ==
    IF dfs = <<>> THEN acc
    ELSE concat_columns(Tail(dfs),
             acc \o SelectSeq(Head(dfs).cols, LAMBDA c : ~InSeq(c, acc)))

RECURSIVE concat_rows(_, _)
concat_rows(dfs, colset) ==
    IF dfs = <<>> THEN <<>>
    ELSE LET t == Head(dfs)
             widen(r) == [c \in colset |-> IF c \in DOMAIN r THEN r[c] ELSE NULL]
         IN  [i \in 1..Len(t.rows) |-> widen(t.rows[i])] \o concat_rows(Tail(dfs), colset)

\* pd.concat(dfs, ignore_index=True)
pd_concat(dfs) ==
    LET cols == concat_columns(dfs, <<>>)
    IN  [cols |-> cols, rows |-> concat_rows(dfs, {cols[i] : i \in 1..Len(cols)})]

\* drop_duplicates with keep='last'
RECURSIVE drop_duplicates_keep_last(_, _, _)
drop_duplicates_keep_last(rows, key, seen) ==
    IF rows = <<>> THEN <<>>
    ELSE LET r == Head(rows)
         IN  IF \E i \in 2..Len(rows) : rows[i][key] = r[key]
             THEN drop_duplicates_keep_last(Tail(rows), key, seen)
             ELSE <<r>> \o drop_duplicates_keep_last(Tail(rows), key, seen)

\* DataFrame.drop_duplicates(subset=[key], keep='first'); missing keys equal each other
RECURSIVE drop_duplicates(_, _, _)
drop_duplicates(rows, key, seen) ==
    IF rows = <<>> THEN <<>>
    ELSE LET r == Head(rows)
         IN  IF r[key] \in seen THEN drop_duplicates(Tail(rows), key, seen)
             ELSE <<r>> \o drop_duplicates(Tail(rows), key, seen \cup {r[key]})

\* post_processor.py:206-219
dedup(t) ==
    IF InSeq("detail_variant_sku", t.cols)
    THEN LET df_with_sku ==
                 drop_duplicates(
                     SelectSeq(t.rows, LAMBDA r : notna(r["detail_variant_sku"])),
                     "detail_variant_sku", {})
             df_without_sku == SelectSeq(t.rows, LAMBDA r : isna(r["detail_variant_sku"]))
         IN  [cols |-> t.cols, rows |-> df_with_sku \o df_without_sku]
    ELSE IF InSeq("sku", t.cols)
    THEN [cols |-> t.cols, rows |-> drop_duplicates(t.rows, "sku", {})]
    ELSE t

\* drop_empty_columns dropping every column that has a null, not only the all-null ones
drop_empty_columns_any_null(t) ==
    LET empty_cols == {c \in ColSet(t) : \E i \in 1..Len(t.rows) : isna(t.rows[i][c])}
        cols == SelectSeq(t.cols, LAMBDA c : c \notin empty_cols)
    IN  [cols |-> cols,
         rows |-> [i \in 1..Len(t.rows) |->
                      [c \in ColSet(t) \ empty_cols |-> t.rows[i][c]]]]

\* post_processor.py:221-225
drop_empty_columns(t) ==
    LET empty_cols == {c \in ColSet(t) : \A i \in 1..Len(t.rows) : isna(t.rows[i][c])}
        cols == SelectSeq(t.cols, LAMBDA c : c \notin empty_cols)
    IN  [cols |-> cols,
         rows |-> [i \in 1..Len(t.rows) |->
                      [c \in ColSet(t) \ empty_cols |-> t.rows[i][c]]]]

---------------------------------------------------------------------------
(* run_post_processor, post_processor.py:139-250 *)

Msg(tag) == [tag |-> tag, file |-> <<>>]
MsgFile(tag, f) == [tag |-> tag, file |-> f]

HasMsg(msgs, tag) == \E i \in 1..Len(msgs) : msgs[i].tag = tag

Outcome(files, icols, dfs, cat, final, msgs, r, w) ==
    [csv_files |-> files, image_cols |-> icols, all_dfs |-> dfs, concat_df |-> cat,
     combined |-> final, out_msgs |-> msgs, ret |-> r, written |-> w]

\* post_processor.py:189-195: the loop over csv_files, with all_dfs and the output so far
RECURSIVE process_files(_, _, _, _, _)
process_files(d, files, icols, dfs, msgs) ==
    IF files = <<>> THEN [all_dfs |-> dfs, msgs |-> msgs]
    ELSE LET f == Head(files)
             res == process_csv(d[f], icols)
             started == Append(msgs, MsgFile("Processing", f))
         IN  IF res.raised
             THEN process_files(d, Tail(files), icols, dfs,
                                Append(started, MsgFile("ERROR processing", f)))
             ELSE process_files(d, Tail(files), icols, Append(dfs, res.df), started)

\* post_processor.py:173-250: the run once csv_files is known
run_on(d, files) ==
    IF files = <<>>
    THEN Outcome(files, <<>>, <<>>, EmptyTable, EmptyTable,
                 <<Msg("No CSV files found")>>, "None", FALSE)
    ELSE LET found == [i \in 1..Len(files) |-> MsgFile("Found", files[i])]
         IN  IF ~d[files[1]].header
             \* line 182 is outside the try block: the exception leaves the function
             THEN Outcome(files, <<>>, <<>>, EmptyTable, EmptyTable, found, "raised", FALSE)
             ELSE LET icols == SelectSeq(IMAGE_COLUMNS, LAMBDA c : c \in d[files[1]].columns)
                      loop == process_files(d, files, icols, <<>>, found)
                  IN  IF loop.all_dfs = <<>>
                      THEN Outcome(files, icols, <<>>, EmptyTable, EmptyTable,
                                   Append(loop.msgs, Msg("No data processed!")), "None", FALSE)
                      ELSE LET cat == pd_concat(loop.all_dfs)
                               final == drop_empty_columns(dedup(cat))
                           IN  Outcome(files, icols, loop.all_dfs, cat, final,
                                       Append(loop.msgs, Msg("COMPLETE!")), "DataFrame", TRUE)

\* post_processor.py:163-171: the outcomes over every order os.listdir may return.
\* path is "missing", "file" (the path exists and is no directory) or "directory"
run_outcomes(path, d) ==
    IF path = "missing"      \* not os.path.exists(input_dir)
    THEN {Outcome(<<>>, <<>>, <<>>, EmptyTable, EmptyTable,
                  <<Msg("ERROR: Input directory not found")>>, "None", FALSE)}
    ELSE IF path = "file"    \* os.listdir raises NotADirectoryError
    THEN {Outcome(<<>>, <<>>, <<>>, EmptyTable, EmptyTable, <<>>, "raised", FALSE)}
    ELSE {run_on(d, files) : files \in {discover(l) : l \in selected_listings(d)}}

---------------------------------------------------------------------------
(* Input directories *)

NameOf(stem) == <<stem>> \o DOT_CSV
\* 'a.csv', 'b.csv', 'c.csv', 'd.csv'
DataNames == <<NameOf(97), NameOf(98), NameOf(99), NameOf(100)>>

PROGRESS_1_CSV == PROGRESS \o <<95, 49>> \o DOT_CSV    \* 'progress_1.csv' 
NOTES_TXT == <<110, 111, 116, 101, 115, 46, 116, 120, 116>>    \* 'notes.txt' 

\* The cell holding the one-character string of code point c
Str(c) == Some(<<c>>)

\* Files the crawler leaves next to the product files; discovery must not select them
OtherFiles ==
    (AUDIT_TABLE_CSV :> CsvFile({"sku"}, <<[sku |-> Str(115)]>>))
    @@ (PROGRESS_1_CSV :> Unreadable)
    @@ (NOTES_TXT :> Unreadable)

\* Headers of the generated product files: with the plain identifier only, with the
\* variant identifier, and with neither
Schemas ==
    { {"sku", "name"},
      {"detail_variant_sku", "name"},
      {"image_1", "detail_breadcrumbs"} }

CellsOf(c) ==
    CASE c = "sku" -> {NULL, Str(115)}                            \* 's'
      [] c = "detail_variant_sku" -> {NULL, Str(118), Str(119)}   \* 'v', 'w'
      [] c = "name" -> {NULL, Str(110)}                           \* 'n'
      [] c = "image_1" -> {NULL, Str(117)}                        \* 'u'
      [] c = "detail_breadcrumbs" -> {NULL, Some(<<104, GREATER_THAN, 99>>)}    \* 'h>c' 

RowsOf(S) == {r \in [S -> UNION {CellsOf(c) : c \in S}] : \A c \in S : r[c] \in CellsOf(c)}

NoFiles == [x \in {} |-> Unreadable]

\* disk holds acc, the files DataNames[i..n] with at most budget rows in all, and
\* OtherFiles; each of DataNames[i..n] cannot be read, or has a header of Schemas and
\* either is damaged further down or holds any number of rows, none included
RECURSIVE DiskHolds(_, _, _, _)
RECURSIVE FileHolds(_, _, _, _, _, _)

DiskHolds(i, n, budget, acc) ==
    IF i > n THEN disk = acc @@ OtherFiles
    ELSE \/ DiskHolds(i + 1, n, budget, (DataNames[i] :> Unreadable) @@ acc)
         \/ \E S \in Schemas :
               DiskHolds(i + 1, n, budget, (DataNames[i] :> Damaged(S)) @@ acc)
         \/ \E S \in Schemas : FileHolds(i, n, budget, acc, S, <<>>)

\* ... where the file DataNames[i] has header S and begins with rows
FileHolds(i, n, budget, acc, S, rows) ==
    \/ DiskHolds(i + 1, n, budget, (DataNames[i] :> CsvFile(S, rows)) @@ acc)
    \/ /\ budget > 0
       /\ \E r \in RowsOf(S) : FileHolds(i, n, budget - 1, acc, S, Append(rows, r))

---------------------------------------------------------------------------
(* Specifications *)

CrumbIdle == bc_in = NULL /\ bc_out = NoCategories /\ bc_done = FALSE
ImageIdle ==
    /\ img_row = [x \in {} |-> NULL] /\ img_cols = <<>>
    /\ img_out = NULL /\ img_count = 0 /\ img_done = FALSE
PipeIdle ==
    /\ input_dir = "missing" /\ disk = NoFiles /\ runs = 2
    /\ csv_files = <<>> /\ image_cols = <<>> /\ all_dfs = <<>>
    /\ concat_df = EmptyTable /\ combined = EmptyTable /\ out_msgs = <<>>
    /\ ret = "not run" /\ written = FALSE
    /\ prev_ret = "not run" /\ prev_combined = EmptyTable

InitPipe ==
    /\ \/ input_dir \in {"missing", "file"} /\ disk = NoFiles
       \/ input_dir = "directory" /\ \E n \in 0..MaxFiles : DiskHolds(1, n, MaxTotalRows, NoFiles)
    /\ runs = 0
    /\ csv_files = <<>> /\ image_cols = <<>> /\ all_dfs = <<>>
    /\ concat_df = EmptyTable /\ combined = EmptyTable /\ out_msgs = <<>>
    /\ ret = "not run" /\ written = FALSE
    /\ prev_ret = "not run" /\ prev_combined = EmptyTable

\* One call of run_post_processor(input_dir, output_file)
run_post_processor ==
    /\ runs \in {0, 1}    \* a first run and one re-run over the unchanged directory
    /\ \E o \in run_outcomes(input_dir, disk) :
          /\ csv_files' = o.csv_files
          /\ image_cols' = o.image_cols
          /\ all_dfs' = o.all_dfs
          /\ concat_df' = o.concat_df
          /\ combined' = o.combined
          /\ out_msgs' = o.out_msgs
          /\ ret' = o.ret
          /\ written' = o.written
    /\ runs' = runs + 1
    /\ prev_ret' = ret
    /\ prev_combined' = combined
    /\ UNCHANGED <<input_dir, disk>>
    /\ UNCHANGED crumbVars
    /\ UNCHANGED imageVars

Init == InitPipe /\ CrumbIdle /\ ImageIdle
Next == run_post_processor
Spec == Init /\ [][Next]_vars

\* split_breadcrumbs applied to every bounded breadcrumb value
InitCrumbs == bc_in \in CrumbInputs /\ bc_out = NoCategories /\ bc_done = FALSE
apply_split_breadcrumbs ==
    /\ ~bc_done
    /\ bc_out' = split_breadcrumbs(bc_in)
    /\ bc_done' = TRUE
    /\ UNCHANGED <<bc_in>>
    /\ UNCHANGED imageVars
    /\ UNCHANGED pipeVars

InitSpecCrumbs == InitCrumbs /\ ImageIdle /\ PipeIdle
NextCrumbs == apply_split_breadcrumbs
SpecCrumbs == InitSpecCrumbs /\ [][NextCrumbs]_vars

\* combine_images and the image_count of process_csv applied to every bounded record
InitImages ==
    /\ \/ img_row \in ImageRows(MaxUrlLen) /\ img_cols = IMAGE_COLUMNS
       \/ img_row \in ImageRows(MaxUrlLen - 1) /\ img_cols \in ImageColLists
    /\ img_out = NULL /\ img_count = 0 /\ img_done = FALSE
apply_combine_images ==
    /\ ~img_done
    /\ img_out' = combine_images(img_row, img_cols)
    /\ img_count' = image_count_of(img_out')
    /\ img_done' = TRUE
    /\ UNCHANGED <<img_row, img_cols>>
    /\ UNCHANGED crumbVars
    /\ UNCHANGED pipeVars

InitSpecImages == InitImages /\ CrumbIdle /\ PipeIdle
NextImages == apply_combine_images
SpecImages == InitSpecImages /\ [][NextImages]_vars

---------------------------------------------------------------------------
(* Claims about split_breadcrumbs (SpecCrumbs) *)

CategoryOf(out, i) ==
    CASE i = 1 -> out.category_1
      [] i = 2 -> out.category_2
      [] i = 3 -> out.category_3
      [] i = 4 -> out.category_4

\* The trimmed '>'-separated segments of the breadcrumb; none for a missing or blank one
CrumbSegments ==
    IF isna(bc_in) \/ \A i \in 1..Len(Val(bc_in)) : IsSpace(Val(bc_in)[i])
    THEN <<>>
    ELSE strip_each(split(Val(bc_in), GREATER_THAN))

\* C6: category_i is the trimmed (i+1)-th segment when it exists and null otherwise
\* (the first segment discarded, segments beyond the fifth dropped, four nulls for a
\* missing or blank input), and no category slot ever holds an empty string.
C6_CategorySlots ==
    bc_done =>
        \A i \in 1..4 :
            /\ CategoryOf(bc_out, i) =
                   (IF i + 1 <= Len(CrumbSegments) THEN Some(CrumbSegments[i + 1]) ELSE NULL)
            /\ CategoryOf(bc_out, i) # Some(<<>>)

---------------------------------------------------------------------------
(* Claims about combine_images and image_count (SpecImages) *)

\* The list all_images decodes to
DecodedImages == IF isna(img_out) THEN <<>> ELSE json_loads(Val(img_out))

\* The trimmed value candidate field i contributes, <<>> when it contributes none
CandidateUrl(i) ==
    LET col == img_cols[i]
    IN  IF col \in DOMAIN img_row /\ notna(img_row[col]) THEN strip(Val(img_row[col])) ELSE <<>>

\* C7: all_images decodes to the trimmed non-blank values of the candidate fields, in
\* candidate order, each exact string once; it is null (never an empty array) when no
\* URL survives; image_count is the length of the decoded list, 0 for null.
C7_ImagesOrderedUnique ==
    img_done =>
        LET L == DecodedImages
            cand == [i \in 1..Len(img_cols) |-> CandidateUrl(i)]
            urls == {cand[i] : i \in 1..Len(cand)} \ {<<>>}
            \* the first candidate field holding the k-th decoded URL
            first == [k \in 1..Len(L) |->
                         CHOOSE i \in 1..Len(cand) :
                             cand[i] = L[k] /\ \A j \in 1..(i - 1) : cand[j] # L[k]]
        IN  /\ {L[i] : i \in 1..Len(L)} = urls
            /\ \A i, j \in 1..Len(L) : i # j => L[i] # L[j]
            /\ \A i, j \in 1..Len(L) : i < j => first[i] < first[j]
            /\ isna(img_out) <=> urls = {}
            /\ img_count = Len(L)

\* A record in which a later field repeats, up to surrounding blanks, the URL of an
\* earlier one, and a third field adds another URL
C7_Witness ==
    /\ img_done
    /\ img_count = 2
    /\ \E i, j \in 1..Len(img_cols) :
          /\ i < j
          /\ CandidateUrl(i) = CandidateUrl(j)
          /\ CandidateUrl(i) # <<>>
          /\ img_row[img_cols[i]] # img_row[img_cols[j]]

---------------------------------------------------------------------------
(* Claims about run_post_processor (Spec) *)

\* What the directory holds, read off the disk: DataNames is in ascending order
ProductFiles == SelectSeq(DataNames, LAMBDA f : f \in DOMAIN disk)
ReadableFiles == SelectSeq(ProductFiles, LAMBDA f : disk[f].readable)

\* The files that load: readable, and not a bare header with a breadcrumb column
LoadedFiles ==
    SelectSeq(ReadableFiles,
              LAMBDA f : disk[f].rows # <<>> \/ "detail_breadcrumbs" \notin disk[f].columns)

RECURSIVE RowsOfFiles(_)
RowsOfFiles(files) ==
    IF files = <<>> THEN <<>> ELSE disk[Head(files)].rows \o RowsOfFiles(Tail(files))

\* The rows of the readable files, by sorted file name, then by place in the file
InputRows == RowsOfFiles(ReadableFiles)

Cell(r, c) == IF c \in DOMAIN r THEN r[c] ELSE NULL
AllowListed == {COLUMNS_TO_KEEP[i] : i \in 1..Len(COLUMNS_TO_KEEP)}
Derived == {DERIVED_COLUMNS[i] : i \in 1..Len(DERIVED_COLUMNS)}

HasColumn(c) == \E i \in 1..Len(LoadedFiles) : c \in disk[LoadedFiles[i]].columns

\* The dedup key: the variant identifier, or the plain one when no file has the former
KeyColumn ==
    IF HasColumn("detail_variant_sku") THEN "detail_variant_sku"
    ELSE IF HasColumn("sku") THEN "sku"
    ELSE "none"

\* C1: every non-null dedup key value is in exactly one row of the final output, and
\* that row is the first row with the value in concatenation order (sorted file name,
\* then in-file row order).
C1_FirstOccurrenceSurvives ==
    (ret = "DataFrame" /\ KeyColumn # "none") =>
        LET kc == KeyColumn
            rows == InputRows
            out == ColSet(combined)
            keys == [i \in 1..Len(rows) |-> Cell(rows[i], kc)]
            out_keys == [i \in 1..Len(combined.rows) |-> Cell(combined.rows[i], kc)]
        IN  \A j \in 1..Len(rows) :
                LET first == CHOOSE i \in 1..j :
                                 keys[i] = keys[j] /\ \A h \in 1..(i - 1) : keys[h] # keys[j]
                    hits == {i \in 1..Len(combined.rows) : out_keys[i] = keys[j]}
                IN  notna(keys[j]) =>
                        /\ Cardinality(hits) = 1
                        /\ \A i \in hits :
                              \A c \in (DOMAIN rows[first]) \cap out :
                                  combined.rows[i][c] = rows[first][c]

\* Two files each hold a row with the same variant identifier and the rows differ
C1_Witness ==
    /\ ret = "DataFrame"
    /\ KeyColumn = "detail_variant_sku"
    /\ Len(ReadableFiles) = 2
    /\ \E i \in 1..Len(disk[ReadableFiles[1]].rows), j \in 1..Len(disk[ReadableFiles[2]].rows) :
          LET a == disk[ReadableFiles[1]].rows[i]
              b == disk[ReadableFiles[2]].rows[j]
          IN  /\ notna(Cell(a, KeyColumn))
              /\ Cell(a, KeyColumn) = Cell(b, KeyColumn)
              /\ Cell(a, "name") # Cell(b, "name")
    /\ Len(combined.rows) < Len(InputRows)

NullKeyCount(rows) ==
    Cardinality({i \in 1..Len(rows) : isna(Cell(rows[i], KeyColumn))})

\* C2: the deduplication step retains every row whose dedup key is null or missing,
\* when it deduplicates by detail_variant_sku and when it deduplicates by sku.
C2_KeylessRowsRetained ==
    ret = "DataFrame" =>
        IF KeyColumn = "none" THEN Len(combined.rows) = Len(InputRows)
        ELSE NullKeyCount(combined.rows) = NullKeyCount(InputRows)

\* C3: with a file that cannot be read at any place of the sorted order, the run does
\* not abort, the file is reported and skipped, and the rows entering concatenation
\* are the rows of the readable files in sorted-file order.
C3_UnreadableFileSkipped ==
    (runs >= 1 /\ input_dir = "directory" /\ ProductFiles # <<>>) =>
        /\ ret # "raised"
        /\ \A i \in 1..Len(ProductFiles) :
              ~InSeq(ProductFiles[i], LoadedFiles) =>
                  MsgFile("ERROR processing", ProductFiles[i]) \in
                      {out_msgs[m] : m \in 1..Len(out_msgs)}
        /\ Len(concat_df.rows) = Len(InputRows)
        /\ \A j \in 1..Len(InputRows) :
              \A c \in (DOMAIN InputRows[j]) \cap AllowListed :
                  Cell(concat_df.rows[j], c) = InputRows[j][c]

\* The rows of the concatenated table that deduplication keeps
Survivors ==
    LET kc == KeyColumn
        keys == [i \in 1..Len(concat_df.rows) |-> Cell(concat_df.rows[i], kc)]
    IN  {j \in 1..Len(concat_df.rows) :
            \/ kc = "none"
            \/ kc = "detail_variant_sku" /\ isna(keys[j])
            \/ \A i \in 1..(j - 1) : keys[i] # keys[j]}

NonNullInProcessed(c) ==
    \E k \in 1..Len(all_dfs) : \E i \in 1..Len(all_dfs[k].rows) :
        notna(Cell(all_dfs[k].rows[i], c))

\* C4 as stated: an allow-listed or derived column is in the final output iff some
\* row of some processed input file holds a non-null value in it, also when the only
\* rows carrying the value are removed as duplicates.
C4_ColumnIffNonNullInInput ==
    ret = "DataFrame" =>
        \A c \in AllowListed \cup Derived :
            InSeq(c, combined.cols) <=> NonNullInProcessed(c)

\* C4 as amended: an allow-listed or derived column is in the final output iff it holds
\* a non-null value in some row that deduplication keeps; a column that is all-null in
\* every processed file never appears.
C4_ColumnIffNonNullSurvivor ==
    ret = "DataFrame" =>
        LET kept == {concat_df.rows[j] : j \in Survivors}
            out == ColSet(combined)
        IN  \A c \in AllowListed \cup Derived :
                /\ c \in out <=> \E r \in kept : notna(Cell(r, c))
                /\ c \in out => NonNullInProcessed(c)

\* The only rows with a name are dropped as duplicates, and the column goes with them
C4_Witness ==
    /\ ret = "DataFrame"
    /\ NonNullInProcessed("name")
    /\ ~InSeq("name", combined.cols)
    /\ Len(combined.rows) < Len(concat_df.rows)

AssembledOrder == COLUMNS_TO_KEEP \o DERIVED_COLUMNS
PlaceOf(c) == CHOOSE i \in 1..Len(AssembledOrder) : AssembledOrder[i] = c

\* C5: the columns of the output are in allow-list order followed by all_images,
\* image_count, category_1..category_4; no allow-listed column follows a derived one.
C5_ColumnsInAssembledOrder ==
    ret = "DataFrame" =>
        /\ ColSet(combined) \subseteq AllowListed \cup Derived
        /\ \A i, j \in 1..Len(combined.cols) :
              i < j => PlaceOf(combined.cols[i]) < PlaceOf(combined.cols[j])

\* C8: with no input directory, or no selectable file in it, the run prints a message
\* saying so, returns None without raising and writes nothing; and a run never
\* returns None without an explanatory message.
NoSelectableFile ==
    \A f \in DOMAIN disk :
        ~endswith(f, DOT_CSV) \/ f = AUDIT_TABLE_CSV \/ startswith(f, PROGRESS)

C8_NoInputIsReported ==
    runs >= 1 =>
        /\ input_dir = "missing" =>
              ret = "None" /\ ~written /\ HasMsg(out_msgs, "ERROR: Input directory not found")
        /\ (input_dir = "directory" /\ NoSelectableFile) =>
              ret = "None" /\ ~written /\ HasMsg(out_msgs, "No CSV files found")
        /\ ret = "None" =>
              \/ HasMsg(out_msgs, "ERROR: Input directory not found")
              \/ HasMsg(out_msgs, "No CSV files found")
              \/ HasMsg(out_msgs, "No data processed!")

\* The directory exists and holds only files that discovery must pass over
C8_Witness ==
    /\ runs >= 1
    /\ input_dir = "directory"
    /\ DOMAIN disk # {}
    /\ NoSelectableFile
    /\ ret = "None"

\* C9: two runs over an unchanged directory give the same result (columns, row order,
\* values), whatever order the directory is listed in.
C9_RunsAgree ==
    runs = 2 =>
        /\ ret = prev_ret
        /\ combined = prev_combined

\* A second run over two readable files with different content
C9_Witness ==
    /\ runs = 2
    /\ ret = "DataFrame"
    /\ Len(csv_files) = 2
    /\ disk[csv_files[1]].readable /\ disk[csv_files[2]].readable
    /\ disk[csv_files[1]] # disk[csv_files[2]]
    /\ Len(combined.rows) >= 2

\* C10: every non-blank URL held in a candidate image field of a row is in the row's
\* all_images, also when the field is absent from the first file of the batch.
C10_EveryImageFieldConsolidated ==
    (ret = "DataFrame" /\ Len(all_dfs) = Len(LoadedFiles)) =>
        \A k \in 1..Len(LoadedFiles) :
            LET file == disk[LoadedFiles[k]]
            IN  \A i \in 1..Len(file.rows) :
                    \A n \in 1..Len(IMAGE_COLUMNS) :
                        LET v == Cell(file.rows[i], IMAGE_COLUMNS[n])
                            all_images == Cell(all_dfs[k].rows[i], "all_images")
                        IN  (notna(v) /\ strip(Val(v)) # <<>>) =>
                                /\ notna(all_images)
                                /\ InSeq(strip(Val(v)), json_loads(Val(all_images)))

=============================================================================
